---- MODULE Spec2Model ----
(***************************************************************************)
(* Model of backend/server.py: the deck documents of the Mongo collection  *)
(* db.decks, the request handlers that create, read, mutate and delete     *)
(* them, and the two pure functions they call, validate_commander_deck     *)
(* and calculate_deck_power_level.                                         *)
(*                                                                         *)
(* Representation.                                                         *)
(*   - An Optional[X] is a sequence of length 0 (None) or 1.               *)
(*   - Prices are whole cents (price_usd = 25.00 is 2500).                 *)
(*   - cmc is a whole number of mana; the mean sum/len is compared by      *)
(*     cross-multiplication, which agrees with the float comparison for    *)
(*     sums and lengths of this size.                                      *)
(*   - An error string of the validator is a record of its kind and the    *)
(*     value formatted into it.                                            *)
(*   - Deck.name, created_at, updated_at and the pass-through fields       *)
(*     mana_cost, colors, rarity, image_uri are not read by any rule and   *)
(*     are left out.                                                       *)
(***************************************************************************)
EXTENDS Integers, Sequences, FiniteSets, TLC

\* ------------------------------------------------------------------------
\* Bounds of the model.

\* Largest quantity a request asks for.
MaxQty == 2
\* AddCard requests are issued while the deck's entry quantities sum to at
\* most this.
MaxTotal == 3

\* ------------------------------------------------------------------------
\* The Card Lookup Gateway (Scryfall), seen from fetch_scryfall_data.

\* What a caller may put after "cards/": card ids, a second route to the card
\* c1 ("set/number" style: the record returned carries the id c1), and an id
\* Scryfall does not know.
CardKeys == {"c1", "c2", "c3", "k1", "c1_by_set", "junk", "unknown"}

\* The JSON body Scryfall answers with for a key it resolves.
\* usd: <<cents>> for a numeric string, <<>> for null, <<-1>> for a string
\* that is not a number.
ScryfallCard(key) ==
    CASE key \in {"c1", "c1_by_set"} ->
           [id |-> "c1", name |-> "Sol Ring", cmc |-> 1,
            type_line |-> {"Artifact"}, color_identity |-> {},
            usd |-> <<160>>]
      [] key = "c2" ->
           [id |-> "c2", name |-> "Plains", cmc |-> 0,
            type_line |-> {"Basic", "Land"}, color_identity |-> {"W"},
            usd |-> <<>>]
      [] key = "c3" ->
           [id |-> "c3", name |-> "Force of Will", cmc |-> 5,
            type_line |-> {"Instant"}, color_identity |-> {"U"},
            usd |-> <<6000>>]
      [] key = "k1" ->
           [id |-> "k1", name |-> "Isamaru", cmc |-> 1,
            type_line |-> {"Legendary", "Creature"}, color_identity |-> {"W"},
            usd |-> <<40>>]
      [] key = "junk" ->
           [id |-> "junk", name |-> "Misprint", cmc |-> 2,
            type_line |-> {"Creature"}, color_identity |-> {},
            usd |-> <<-1>>]

\* response.status of the GET: 200, or Scryfall's 404 for an unknown card.
ScryfallStatus(key) == IF key = "unknown" THEN 404 ELSE 200

\* fetch_scryfall_data: the JSON on 200, else raise HTTPException(status).
\* raised = 0 means no exception.
fetch_scryfall_data(key) ==
    IF ScryfallStatus(key) = 200
    THEN [raised |-> 0, data |-> <<ScryfallCard(key)>>]
    ELSE [raised |-> ScryfallStatus(key), data |-> <<>>]

\* ------------------------------------------------------------------------
\* Pricing.

\* USD_TO_AUD_RATE = 1.55, in hundredths.
USD_TO_AUD_RATE == 155

\* round(usd_price * USD_TO_AUD_RATE, 2), in cents. (The catalog holds no
\* price whose product lies exactly between two cents.)
convert_usd_to_aud(usd_price) == (usd_price * USD_TO_AUD_RATE + 50) \div 100

\* float(prices.get("usd", 0) or 0) raises ValueError on a string that is not
\* a number.
UsdPriceRaises(card_data) == card_data.usd = <<-1>>

\* float(prices.get("usd", 0) or 0): null and absent become 0.
UsdPrice(card_data) == IF card_data.usd = <<>> THEN 0 ELSE card_data.usd[1]

\* DeckCard(card_id=card_data["id"], ..., quantity=quantity, ...)
NewDeckCard(card_data, quantity) ==
    [card_id |-> card_data.id,
     name |-> card_data.name,
     quantity |-> quantity,
     cmc |-> card_data.cmc,
     type_line |-> card_data.type_line,
     color_identity |-> card_data.color_identity,
     price_usd |-> UsdPrice(card_data),
     price_aud |-> convert_usd_to_aud(UsdPrice(card_data))]

\* ------------------------------------------------------------------------
\* calculate_deck_power_level

fast_mana_cards ==
    {"Sol Ring", "Mana Crypt", "Mana Vault", "Chrome Mox", "Mox Diamond",
     "Grim Monolith", "Basalt Monolith", "Thran Dynamo"}

tutors ==
    {"Vampiric Tutor", "Demonic Tutor", "Mystical Tutor", "Enlightened Tutor",
     "Worldly Tutor", "Gamble", "Imperial Seal"}

\* A variant of expensive_cards that adds up quantities instead of counting
\* entries.
RECURSIVE expensive_cards_by_quantity(_)
expensive_cards_by_quantity(cards) ==
    IF cards = <<>> THEN 0
    ELSE (IF Head(cards).price_usd > 2000 THEN Head(cards).quantity ELSE 0)
         + expensive_cards_by_quantity(Tail(cards))

\* sum(1 for card in cards if card.price_usd > 20)
RECURSIVE expensive_cards(_)
expensive_cards(cards) ==
    IF cards = <<>> THEN 0
    ELSE (IF Head(cards).price_usd > 2000 THEN 1 ELSE 0)
         + expensive_cards(Tail(cards))

\* sum(1 for card in cards if card.price_usd > 50)
RECURSIVE very_expensive_cards(_)
very_expensive_cards(cards) ==
    IF cards = <<>> THEN 0
    ELSE (IF Head(cards).price_usd > 5000 THEN 1 ELSE 0)
         + very_expensive_cards(Tail(cards))

\* sum(1 for card in cards if card.name in fast_mana_cards + tutors)
RECURSIVE power_cards_count(_)
power_cards_count(cards) ==
    IF cards = <<>> THEN 0
    ELSE (IF Head(cards).name \in fast_mana_cards \cup tutors THEN 1 ELSE 0)
         + power_cards_count(Tail(cards))

\* sum(card.cmc for card in cards)
RECURSIVE SumCmc(_)
SumCmc(cards) ==
    IF cards = <<>> THEN 0 ELSE Head(cards).cmc + SumCmc(Tail(cards))

\* The "Calculate power level" steps on price and staples.
PriceAndStapleLevel(cards) ==
    1
    + (IF expensive_cards(cards) >= 20 \/ very_expensive_cards(cards) >= 5
       THEN 2
       ELSE IF expensive_cards(cards) >= 10 THEN 1 ELSE 0)
    + (IF power_cards_count(cards) >= 8 THEN 2
       ELSE IF power_cards_count(cards) >= 4 THEN 1 ELSE 0)

\* "Adjust based on average CMC": avg_cmc = sum / len, then < 2.5 and > 4.0.
CmcAdjustment(cards) ==
    IF Len(cards) > 0
    THEN IF 2 * SumCmc(cards) < 5 * Len(cards) THEN 1
         ELSE IF SumCmc(cards) > 4 * Len(cards) THEN -1 ELSE 0
    ELSE 0

Min2(a, b) == IF a < b THEN a ELSE b
Max2(a, b) == IF a > b THEN a ELSE b

\* return min(5, max(1, power_level)); commander is a parameter never read.
calculate_deck_power_level(cards, commander) ==
    Min2(5, Max2(1, PriceAndStapleLevel(cards) + CmcAdjustment(cards)))

\* ------------------------------------------------------------------------
\* validate_commander_deck

basic_lands == {"Plains", "Island", "Swamp", "Mountain", "Forest", "Wastes"}

\* sum(card.quantity for card in cards)
RECURSIVE SumQuantity(_)
SumQuantity(cards) ==
    IF cards = <<>> THEN 0 ELSE Head(cards).quantity + SumQuantity(Tail(cards))

\* total_cards = sum(...); if commander: total_cards += 1
ValidatorTotal(cards, commander) ==
    SumQuantity(cards) + (IF commander # <<>> THEN 1 ELSE 0)

ErrCount(n) == [kind |-> "count", name |-> "", count |-> n]
ErrDuplicate(name) == [kind |-> "duplicate", name |-> name, count |-> 0]
ErrColor(name) == [kind |-> "color", name |-> name, count |-> 0]

\* A variant of CountErrors that accepts a deck of more than 100 cards.
CountErrorsBelow(cards, commander) ==
    IF ValidatorTotal(cards, commander) < 100
    THEN <<ErrCount(ValidatorTotal(cards, commander))>>
    ELSE <<>>

\* if total_cards != 100: errors.append(...)
CountErrors(cards, commander) ==
    IF ValidatorTotal(cards, commander) # 100
    THEN <<ErrCount(ValidatorTotal(cards, commander))>>
    ELSE <<>>

\* card_counts.get(card.name, 0)
CountsGet(card_counts, name) ==
    IF name \in DOMAIN card_counts THEN card_counts[name] ELSE 0

\* A variant of DuplicateLoop that looks at each entry's own quantity and
\* keeps no running count per name.
RECURSIVE DuplicateLoopPerEntry(_, _, _)
DuplicateLoopPerEntry(cards, i, card_counts) ==
    IF i > Len(cards) THEN <<>>
    ELSE (IF cards[i].name \notin basic_lands /\ cards[i].quantity > 1
          THEN <<ErrDuplicate(cards[i].name)>> ELSE <<>>)
         \o DuplicateLoopPerEntry(cards, i + 1, card_counts)

\* The loop "for card in cards" of the duplicate check, from entry i on, with
\* the dictionary card_counts as it stands there.
RECURSIVE DuplicateLoop(_, _, _)
DuplicateLoop(cards, i, card_counts) ==
    IF i > Len(cards) THEN <<>>
    ELSE IF cards[i].name \notin basic_lands
    THEN LET n == CountsGet(card_counts, cards[i].name) + cards[i].quantity
         IN (IF n > 1 THEN <<ErrDuplicate(cards[i].name)>> ELSE <<>>)
            \o DuplicateLoop(cards, i + 1, (cards[i].name :> n) @@ card_counts)
    ELSE DuplicateLoop(cards, i + 1, card_counts)

\* card_counts = {}
NoCounts == [n \in {} |-> 0]

DuplicateErrors(cards) == DuplicateLoop(cards, 1, NoCounts)

\* for card in cards: if not card_colors.issubset(commander_colors): ...
RECURSIVE ColorLoop(_, _)
ColorLoop(cards, commander_colors) ==
    IF cards = <<>> THEN <<>>
    ELSE (IF ~(Head(cards).color_identity \subseteq commander_colors)
          THEN <<ErrColor(Head(cards).name)>> ELSE <<>>)
         \o ColorLoop(Tail(cards), commander_colors)

\* A variant of ColorErrors that reports only the first offending entry.
ColorErrorsFirstOnly(cards, commander) ==
    IF commander # <<>> /\ ColorLoop(cards, commander[1].color_identity) # <<>>
    THEN <<Head(ColorLoop(cards, commander[1].color_identity))>>
    ELSE <<>>

\* if commander: ...
ColorErrors(cards, commander) ==
    IF commander # <<>>
    THEN ColorLoop(cards, commander[1].color_identity)
    ELSE <<>>

ValidatorErrors(cards, commander) ==
    CountErrors(cards, commander) \o DuplicateErrors(cards)
    \o ColorErrors(cards, commander)

validate_commander_deck(cards, commander) ==
    [valid |-> Len(ValidatorErrors(cards, commander)) = 0,
     errors |-> ValidatorErrors(cards, commander),
     warnings |-> <<>>,
     total_cards |-> ValidatorTotal(cards, commander)]

\* ------------------------------------------------------------------------
\* State.

\* The ids uuid4 hands to new decks, each handed out once. A request naming
\* an id before it is handed out, or after its deck is deleted, names a deck
\* that is not persisted.
DeckIds == {"d1"}

VARIABLES
    db,        \* db.decks: the persisted documents, keyed by their "id" field
    issued,    \* the deck ids already handed out by uuid4
    resp,      \* the request last served and the response the caller saw
    inserted,  \* per deck: the sum of the quantities of its successful
               \* add-card requests, or -1 once a remove-card has changed it
    call,      \* a direct call of validate_commander_deck or
               \* calculate_deck_power_level: its arguments and, once it has
               \* returned, its result
    games,     \* db.games: the persisted game documents, keyed by "id"
    game_resp, \* the POST /games request last served and its response
    inflight   \* per client: the add-card or remove-card request it has
               \* under way between the handler's find_one and its update_one

vars == <<db, issued, resp, inserted, call, games, game_resp, inflight>>

\* The variables the deck handlers served one at a time never touch.
aside == <<call, games, game_resp, inflight>>

\* ------------------------------------------------------------------------
\* Deck documents.

\* Deck(name=..., commander=None, cards=[], total_cards=0, power_level=1, ...)
EmptyDeck(id) ==
    [id |-> id, commander |-> <<>>, cards |-> <<>>, total_cards |-> 0,
     power_level |-> 1, total_price_usd |-> 0, total_price_aud |-> 0,
     color_identity |-> {}]

\* deck.commander = commander_card; deck.color_identity = ...;
\* deck.total_cards = 1; deck.total_price_* = commander_card.price_*
WithCommander(deck, commander_card) ==
    [deck EXCEPT !.commander = <<commander_card>>,
                 !.color_identity = commander_card.color_identity,
                 !.total_cards = 1,
                 !.total_price_usd = commander_card.price_usd,
                 !.total_price_aud = commander_card.price_aud]

\* "Legendary" not in type_line or "Creature" not in type_line
NotLegendaryCreature(card_data) ==
    "Legendary" \notin card_data.type_line \/ "Creature" \notin card_data.type_line

\* sum(card.price_usd * card.quantity for card in cards)
RECURSIVE SumPriceUsd(_)
SumPriceUsd(cards) ==
    IF cards = <<>> THEN 0
    ELSE Head(cards).price_usd * Head(cards).quantity + SumPriceUsd(Tail(cards))

\* sum(card.price_aud * card.quantity for card in cards)
RECURSIVE SumPriceAud(_)
SumPriceAud(cards) ==
    IF cards = <<>> THEN 0
    ELSE Head(cards).price_aud * Head(cards).quantity + SumPriceAud(Tail(cards))

\* A variant of TotalCards that forgets the commander.
TotalCardsEntriesOnly(deck) == SumQuantity(deck.cards)

\* deck.total_cards = sum(card.quantity ...) + (1 if deck.commander else 0)
TotalCards(deck) ==
    SumQuantity(deck.cards) + (IF deck.commander # <<>> THEN 1 ELSE 0)

\* A variant of PowerLevel that keeps the level the deck was loaded with.
PowerLevelKept(deck) == deck.power_level

\* deck.power_level = calculate_deck_power_level(deck.cards, deck.commander)
PowerLevel(deck) == calculate_deck_power_level(deck.cards, deck.commander)

\* The block "Recalculate deck stats" of add_card_to_deck and
\* remove_card_from_deck.
Recalculate(deck) ==
    [deck EXCEPT
       !.total_cards = TotalCards(deck),
       !.total_price_usd =
           SumPriceUsd(deck.cards)
           + (IF deck.commander # <<>> THEN deck.commander[1].price_usd ELSE 0),
       !.total_price_aud =
           SumPriceAud(deck.cards)
           + (IF deck.commander # <<>> THEN deck.commander[1].price_aud ELSE 0),
       !.power_level = PowerLevel(deck)]

\* for idx, card in enumerate(deck.cards): if card.card_id == card_id: ... break
\* The first index from idx on whose entry carries card_id, 0 if there is none.
RECURSIVE FirstIndex(_, _, _)
FirstIndex(cards, card_id, idx) ==
    IF idx > Len(cards) THEN 0
    ELSE IF cards[idx].card_id = card_id THEN idx
    ELSE FirstIndex(cards, card_id, idx + 1)

\* deck.cards.pop(idx)
Pop(cards, idx) == SubSeq(cards, 1, idx - 1) \o SubSeq(cards, idx + 1, Len(cards))

\* A variant of AddToCards that sets an existing entry's quantity to the
\* request's instead of adding to it.
AddToCardsOverwrite(cards, card_id, new_card) ==
    LET existing_card_idx == FirstIndex(cards, card_id, 1)
    IN IF existing_card_idx # 0
       THEN [cards EXCEPT ![existing_card_idx].quantity = new_card.quantity]
       ELSE Append(cards, new_card)

\* "Check if card already exists in deck" and the update or append after it.
\* card_id is the request's parameter; new_card carries card_data["id"].
AddToCards(cards, card_id, new_card) ==
    LET existing_card_idx == FirstIndex(cards, card_id, 1)
    IN IF existing_card_idx # 0
       THEN [cards EXCEPT ![existing_card_idx].quantity = @ + new_card.quantity]
       ELSE Append(cards, new_card)

\* "Find and remove card", for an entry found at idx.
RemoveFromCards(cards, idx, quantity) ==
    IF cards[idx].quantity <= quantity
    THEN Pop(cards, idx)
    ELSE [cards EXCEPT ![idx].quantity = @ - quantity]

\* What a handler body ends with: an exception raised (raised = its status
\* code; 500 stands for a Python error that is no HTTPException) or the
\* values it returns.
Raise(status) == [raised |-> status, deck |-> <<>>, validation |-> <<>>]
Return(deck) ==
    [raised |-> 0, deck |-> <<deck>>,
     validation |-> <<validate_commander_deck(deck.cards, deck.commander)>>]

\* add_card_to_deck between find_one and update_one, on the deck it loaded.
AddCardBody(deck, card_id, quantity) ==
    LET fetched == fetch_scryfall_data(card_id)
    IN IF fetched.raised # 0 THEN Raise(fetched.raised)
       ELSE IF UsdPriceRaises(fetched.data[1]) THEN Raise(500)
       ELSE Return(Recalculate(
              [deck EXCEPT !.cards =
                 AddToCards(deck.cards, card_id,
                            NewDeckCard(fetched.data[1], quantity))]))

\* remove_card_from_deck between find_one and update_one.
RemoveCardBody(deck, card_id, quantity) ==
    LET idx == FirstIndex(deck.cards, card_id, 1)
    IN IF idx = 0 THEN Raise(404)
       ELSE Return(Recalculate(
              [deck EXCEPT !.cards = RemoveFromCards(deck.cards, idx, quantity)]))

\* create_deck up to insert_one. Every exception of the commander block is
\* caught by its "except Exception" and raised again as HTTPException(400).
CreateDeckBody(id, commander_id) ==
    IF commander_id = "" THEN Return(EmptyDeck(id))
    ELSE LET fetched == fetch_scryfall_data(commander_id)
         IN IF fetched.raised # 0 THEN Raise(400)
            ELSE IF NotLegendaryCreature(fetched.data[1]) THEN Raise(400)
            ELSE IF UsdPriceRaises(fetched.data[1]) THEN Raise(400)
            ELSE [raised |-> 0,
                  deck |-> <<WithCommander(EmptyDeck(id),
                                           NewDeckCard(fetched.data[1], 1))>>,
                  validation |-> <<>>]

\* The handlers' outermost "except Exception as e: raise HTTPException(500)":
\* HTTPException is an Exception, so it catches the handler's own 404 and 400
\* as well. The status the caller sees.
ResponseStatus(raised) == IF raised # 0 THEN 500 ELSE 200

\* db.decks.find_one({"id": deck_id})
find_one(store, deck_id) ==
    IF deck_id \in DOMAIN store THEN <<store[deck_id]>> ELSE <<>>

\* A variant of update_one that writes only a deck that validates.
update_one_if_valid(store, deck_id, deck) ==
    IF deck_id \in DOMAIN store
       /\ validate_commander_deck(deck.cards, deck.commander).valid
    THEN [store EXCEPT ![deck_id] = deck]
    ELSE store

\* A variant of update_one that inserts the document when none matches.
update_one_upsert(store, deck_id, deck) == (deck_id :> deck) @@ store

\* db.decks.update_one({"id": deck_id}, {"$set": deck.dict()}): no upsert.
update_one(store, deck_id, deck) ==
    IF deck_id \in DOMAIN store THEN [store EXCEPT ![deck_id] = deck] ELSE store

\* db.decks.insert_one(deck_dict)
insert_one(store, deck) == (deck.id :> deck) @@ store

\* db.decks.delete_one({"id": deck_id})
delete_one(store, deck_id) ==
    [d \in DOMAIN store \ {deck_id} |-> store[d]]

\* ------------------------------------------------------------------------
\* Requests. Each action is one request served from its first line to its
\* response.

Response(op, deck_id, card_id, quantity, out) ==
    [op |-> op, deck_id |-> deck_id, card_id |-> card_id, quantity |-> quantity,
     status |-> ResponseStatus(out.raised),
     deck |-> IF out.raised = 0 THEN out.deck ELSE <<>>,
     validation |-> IF out.raised = 0 THEN out.validation ELSE <<>>]

NoStore == [d \in {} |-> EmptyDeck(d)]

\* The clients that may have a request under way at the same time.
Clients == {"a", "b"}

\* A client with no request under way.
Idle == [op |-> "none", deck_id |-> "", card_id |-> "", quantity |-> 0,
         deck_data |-> <<>>]

\* The response of POST /games before any such request.
NoGameResponse == [player_decks |-> <<>>, status |-> 0, game |-> <<>>]

\* No direct call is being made.
NoCall == [fn |-> "none", cards |-> <<>>, commander |-> <<>>, result |-> <<>>]

\* The state after start-up: an empty collection, no request served yet.
StoreInit ==
    /\ db = NoStore
    /\ issued = {}
    /\ resp = Response("none", "", "", 0, Raise(0))
    /\ inserted = [d \in DeckIds |-> 0]
    /\ games = NoStore
    /\ game_resp = NoGameResponse
    /\ inflight = [c \in Clients |-> Idle]

Init == StoreInit /\ call = NoCall

\* POST /decks
CreateDeck(commander_id) ==
    \E id \in DeckIds \ issued :
        LET out == CreateDeckBody(id, commander_id)
        IN /\ resp' = Response("create", id, commander_id, 0, out)
           /\ IF out.raised = 0
              THEN /\ db' = insert_one(db, out.deck[1])
                   /\ issued' = issued \cup {id}
                   /\ inserted' = [inserted EXCEPT ![id] = 0]
              ELSE UNCHANGED <<db, issued, inserted>>
           /\ UNCHANGED aside

\* GET /decks/{deck_id}
GetDeck(deck_id) ==
    LET deck_data == find_one(db, deck_id)
        out == IF deck_data = <<>> THEN Raise(404)
               ELSE [raised |-> 0, deck |-> deck_data, validation |-> <<>>]
    IN /\ resp' = Response("get", deck_id, "", 0, out)
       /\ UNCHANGED <<db, issued, inserted, aside>>

\* A variant of AddCard that writes the deck with its count already raised
\* before the card lookup, so that a failed lookup leaves that write behind.
AddCardWriteFirst(deck_id, card_id, quantity) ==
    LET deck_data == find_one(db, deck_id)
        out == IF deck_data = <<>> THEN Raise(404)
               ELSE AddCardBody(deck_data[1], card_id, quantity)
    IN /\ deck_data # <<>> =>
              SumQuantity(deck_data[1].cards) + quantity <= MaxTotal
       /\ resp' = Response("add", deck_id, card_id, quantity, out)
       /\ IF out.raised = 0
          THEN /\ db' = update_one(db, deck_id, out.deck[1])
               /\ inserted' = [inserted EXCEPT ![deck_id] =
                                 IF @ >= 0 THEN @ + quantity ELSE @]
          ELSE /\ db' = IF deck_data = <<>> THEN db
                        ELSE update_one(db, deck_id,
                               [deck_data[1] EXCEPT !.total_cards = @ + quantity])
               /\ UNCHANGED inserted
       /\ UNCHANGED <<issued, aside>>

\* PUT /decks/{deck_id}/add-card
AddCard(deck_id, card_id, quantity) ==
    LET deck_data == find_one(db, deck_id)
        out == IF deck_data = <<>> THEN Raise(404)
               ELSE AddCardBody(deck_data[1], card_id, quantity)
    IN /\ deck_data # <<>> =>
              SumQuantity(deck_data[1].cards) + quantity <= MaxTotal
       /\ resp' = Response("add", deck_id, card_id, quantity, out)
       /\ IF out.raised = 0
          THEN /\ db' = update_one(db, deck_id, out.deck[1])
               /\ inserted' = [inserted EXCEPT ![deck_id] =
                                 IF @ >= 0 THEN @ + quantity ELSE @]
          ELSE UNCHANGED <<db, inserted>>
       /\ UNCHANGED <<issued, aside>>

\* DELETE /decks/{deck_id}/remove-card/{card_id}
RemoveCard(deck_id, card_id, quantity) ==
    LET deck_data == find_one(db, deck_id)
        out == IF deck_data = <<>> THEN Raise(404)
               ELSE RemoveCardBody(deck_data[1], card_id, quantity)
    IN /\ resp' = Response("remove", deck_id, card_id, quantity, out)
       /\ IF out.raised = 0
          THEN /\ db' = update_one(db, deck_id, out.deck[1])
               /\ inserted' = [inserted EXCEPT ![deck_id] = -1]
          ELSE UNCHANGED <<db, inserted>>
       /\ UNCHANGED <<issued, aside>>

\* DELETE /decks/{deck_id}
DeleteDeck(deck_id) ==
    LET deleted_count == IF deck_id \in DOMAIN db THEN 1 ELSE 0
        out == IF deleted_count = 0 THEN Raise(404)
               ELSE [raised |-> 0, deck |-> <<>>, validation |-> <<>>]
    IN /\ resp' = Response("delete", deck_id, "", 0, out)
       /\ db' = delete_one(db, deck_id)
       /\ UNCHANGED <<issued, inserted, aside>>

Next ==
    \/ \E commander_id \in CardKeys \cup {""} : CreateDeck(commander_id)
    \/ \E deck_id \in DeckIds : GetDeck(deck_id)
    \/ \E deck_id \in DeckIds, card_id \in CardKeys, quantity \in 1..MaxQty :
          AddCard(deck_id, card_id, quantity)
    \/ \E deck_id \in DeckIds, card_id \in CardKeys, quantity \in 1..MaxQty :
          RemoveCard(deck_id, card_id, quantity)
    \/ \E deck_id \in DeckIds : DeleteDeck(deck_id)

Spec == Init /\ [][Next]_vars

\* ------------------------------------------------------------------------
\* Properties of the deck store (specification Spec).

\* The quantities of entries 1..n of cards, added up.
RECURSIVE QuantityUpTo(_, _)
QuantityUpTo(cards, n) ==
    IF n = 0 THEN 0 ELSE QuantityUpTo(cards, n - 1) + cards[n].quantity

CommanderCount(deck) == IF Len(deck.commander) = 1 THEN 1 ELSE 0

\* The entries of cards that carry card_id / that carry another id.
EntriesOf(cards, card_id) == SelectSeq(cards, LAMBDA e : e.card_id = card_id)
EntriesNotOf(cards, card_id) == SelectSeq(cards, LAMBDA e : e.card_id # card_id)

\* The last request was a mutation of op's kind that succeeded.
Succeeded(op) == resp.op = op /\ resp.status = 200

\* C1: in every persisted deck document, total_cards is the sum of the
\* quantities of its card entries, plus 1 if it has a commander.
C1_TotalCardsIsSum ==
    \A d \in DOMAIN db :
        db[d].total_cards
          = QuantityUpTo(db[d].cards, Len(db[d].cards)) + CommanderCount(db[d])

\* C1 witness: a deck with a commander and two entries, just after a
\* remove-card that succeeded.
C1_Witness ==
    /\ Succeeded("remove")
    /\ \E d \in DOMAIN db :
          /\ db[d].commander # <<>>
          /\ Len(db[d].cards) = 2
          /\ db[d].total_cards = 3

\* C2: no two card entries of a persisted deck share a card identifier.
C2_UniqueCardIds ==
    \A d \in DOMAIN db :
        \A i, j \in DOMAIN db[d].cards :
            i # j => db[d].cards[i].card_id # db[d].cards[j].card_id

\* C3: while a deck has only been changed by add-card requests since it was
\* created, its total_cards is the sum of the quantities those requests
\* inserted, plus 1 if it was created with a commander.
C3_AddOnlyTotal ==
    \A d \in DOMAIN db :
        inserted[d] >= 0 => db[d].total_cards = inserted[d] + CommanderCount(db[d])

\* C3 witness: three cards inserted into a deck created with a commander,
\* held by two entries.
C3_Witness ==
    /\ Succeeded("add")
    /\ \E d \in DOMAIN db :
          /\ inserted[d] = 3
          /\ db[d].commander # <<>>
          /\ Len(db[d].cards) = 2

\* What remove-card is to do to a deck's entries: with n the quantity of the
\* entry for card_id, no entry for card_id is left if n <= quantity, else the
\* entry is left with n - quantity (at least 1); entries of other cards stay.
RemoveEffect(before, after, card_id, quantity) ==
    LET n == EntriesOf(before, card_id)[1].quantity
    IN /\ EntriesNotOf(after, card_id) = EntriesNotOf(before, card_id)
       /\ IF n <= quantity
          THEN EntriesOf(after, card_id) = <<>>
          ELSE /\ Len(EntriesOf(after, card_id)) >= 1
               /\ EntriesOf(after, card_id)[1].quantity = n - quantity
               /\ EntriesOf(after, card_id)[1].quantity >= 1

\* C4: a remove-card of quantity q that finds an entry for the card with
\* quantity n leaves no entry for that card if n <= q, and otherwise leaves
\* the entry with quantity n - q (so at least 1); entries of other cards are
\* left as they were.
C4_RemoveCard ==
    [][(resp'.op = "remove" /\ resp'.status = 200) =>
          RemoveEffect(db[resp'.deck_id].cards, db'[resp'.deck_id].cards,
                       resp'.card_id, resp'.quantity)
      ]_vars

\* The same for the decks whose entries carry distinct card ids: there
\* remove-card has that effect.
RemoveCardOnDistinctIds ==
    [][(resp'.op = "remove" /\ resp'.status = 200
          /\ \A i, j \in DOMAIN db[resp'.deck_id].cards :
                i # j => db[resp'.deck_id].cards[i].card_id
                           # db[resp'.deck_id].cards[j].card_id) =>
          RemoveEffect(db[resp'.deck_id].cards, db'[resp'.deck_id].cards,
                       resp'.card_id, resp'.quantity)
      ]_vars

\* C5: power_level of every persisted deck is in 1..5, and after an add-card
\* or remove-card that succeeded it is the heuristic's score of the entries
\* the deck now has, in the store and in the response.
C5_PowerLevelRecomputed ==
    \A d \in DOMAIN db :
        /\ db[d].power_level \in 1..5
        /\ (Succeeded("add") \/ Succeeded("remove")) /\ resp.deck_id = d =>
              /\ db[d].power_level
                   = calculate_deck_power_level(db[d].cards, db[d].commander)
              /\ resp.deck[1].power_level = db[d].power_level

\* C5 witness: an add-card has raised a deck to level 2.
C5_Witness ==
    /\ Succeeded("add")
    /\ \E d \in DOMAIN db : db[d].power_level = 2 /\ Len(db[d].cards) >= 1

\* C10: a request naming a deck that is not persisted, and a remove-card
\* naming a card the deck holds no entry for, is answered with 404.
C10_NotFoundIs404 ==
    [][/\ (resp'.op \in {"get", "add", "remove", "delete"}
            /\ resp'.deck_id \notin DOMAIN db) => resp'.status = 404
       /\ (resp'.op = "remove" /\ resp'.deck_id \in DOMAIN db
            /\ EntriesOf(db[resp'.deck_id].cards, resp'.card_id) = <<>>)
              => resp'.status = 404
      ]_vars

\* ------------------------------------------------------------------------
\* Direct calls of the two pure functions, on bounded inputs.

SeqsUpTo(S, n) == UNION {[1..k -> S] : k \in 0..n}

\* Longest entry list handed to validate_commander_deck.
MaxValidateLen == 3

\* Entry quantities: singletons, pairs, and a stack that reaches 100 cards
\* with one or two more.
ValidateQuantities == {1, 2, 98}

\* Entries over three catalog cards and a second printing of Sol Ring (same
\* name, another card id).
ValidateEntries ==
    {NewDeckCard(ScryfallCard(k), q) :
        k \in {"c1", "c2", "c3"}, q \in ValidateQuantities}
    \cup {[NewDeckCard(ScryfallCard("c1"), q) EXCEPT !.card_id = "c1_foil"] :
            q \in ValidateQuantities}

\* No commander, a white one, a white-blue one.
ValidateCommanders ==
    {<<>>,
     <<NewDeckCard(ScryfallCard("k1"), 1)>>,
     <<[NewDeckCard(ScryfallCard("k1"), 1) EXCEPT
          !.card_id = "k2", !.name = "Brago", !.color_identity = {"W", "U"}]>>}

ValidateInit ==
    /\ StoreInit
    /\ call \in {[fn |-> "validate", cards |-> c, commander |-> k, result |-> <<>>] :
                   c \in SeqsUpTo(ValidateEntries, MaxValidateLen),
                   k \in ValidateCommanders}

\* validate_commander_deck(cards, commander) is called and returns.
Validate ==
    /\ call.fn = "validate" /\ call.result = <<>>
    /\ call' = [call EXCEPT
                  !.result = <<validate_commander_deck(call.cards, call.commander)>>]
    /\ UNCHANGED <<db, issued, resp, inserted, games, game_resp, inflight>>

SpecValidate == ValidateInit /\ [][Validate]_vars

\* Most entries of one kind in a list handed to calculate_deck_power_level.
MaxExpensive == 20
MaxVeryExpensive == 5
MaxStaples == 8
MaxOther == 1

ScoreEntry(name, price_usd, cmc, quantity) ==
    [card_id |-> name, name |-> name, quantity |-> quantity, cmc |-> cmc,
     type_line |-> {}, color_identity |-> {}, price_usd |-> price_usd,
     price_aud |-> convert_usd_to_aud(price_usd)]

Repeat(e, n) == [i \in 1..n |-> e]

Reverse(s) == [i \in 1..Len(s) |-> s[Len(s) + 1 - i]]

\* nx entries at 25.00, nv at 60.00, ns staples, nl lands at exactly 20.00,
\* nh eight-drops at exactly 50.00, each with quantity q.
ScoreList(nx, nv, ns, nl, nh, q) ==
    Repeat(ScoreEntry("Rhystic Study", 2500, 3, q), nx)
    \o Repeat(ScoreEntry("Force of Will", 6000, 5, q), nv)
    \o Repeat(ScoreEntry("Sol Ring", 160, 1, q), ns)
    \o Repeat(ScoreEntry("Plains", 2000, 0, q), nl)
    \o Repeat(ScoreEntry("Ulamog", 5000, 8, q), nh)

\* The lists in that order with quantity 1 and no commander, and reversed
\* with quantity 3 and a commander that is itself a dear staple.
ScoreInit ==
    /\ StoreInit
    /\ \E nx \in 0..MaxExpensive, nv \in 0..MaxVeryExpensive,
          ns \in 0..MaxStaples, nl \in 0..MaxOther, nh \in 0..MaxOther :
          \/ call = [fn |-> "score",
                     cards |-> ScoreList(nx, nv, ns, nl, nh, 1),
                     commander |-> <<>>, result |-> <<>>]
          \/ call = [fn |-> "score",
                     cards |-> Reverse(ScoreList(nx, nv, ns, nl, nh, 3)),
                     commander |-> <<ScoreEntry("Mana Crypt", 20000, 0, 1)>>,
                     result |-> <<>>]

\* calculate_deck_power_level(cards, commander) is called and returns.
Score ==
    /\ call.fn = "score" /\ call.result = <<>>
    /\ call' = [call EXCEPT
                  !.result = <<calculate_deck_power_level(call.cards, call.commander)>>]
    /\ UNCHANGED <<db, issued, resp, inserted, games, game_resp, inflight>>

SpecScore == ScoreInit /\ [][Score]_vars

\* ------------------------------------------------------------------------
\* Properties of calculate_deck_power_level (specification SpecScore).

Returned(fn) == call.fn = fn /\ call.result # <<>>

\* How many entries of cards are priced above cents / are named in names.
PricedAbove(cards, cents) ==
    Cardinality({i \in DOMAIN cards : cards[i].price_usd > cents})
NamedIn(cards, names) ==
    Cardinality({i \in DOMAIN cards : cards[i].name \in names})

RECURSIVE CmcUpTo(_, _)
CmcUpTo(cards, n) == IF n = 0 THEN 0 ELSE CmcUpTo(cards, n - 1) + cards[n].cmc

\* The score as the specification words it, from counts of entries.
ScoreFormula(cards) ==
    LET expensive == PricedAbove(cards, 2000)
        very == PricedAbove(cards, 5000)
        staples == NamedIn(cards, fast_mana_cards \cup tutors)
        cmc == CmcUpTo(cards, Len(cards))
        price == IF expensive >= 20 \/ very >= 5 THEN 2
                 ELSE IF expensive >= 10 THEN 1 ELSE 0
        staple == IF staples >= 8 THEN 2 ELSE IF staples >= 4 THEN 1 ELSE 0
        \* mean < 2.5 and mean > 4.0, for a non-empty list
        curve == IF cards = <<>> THEN 0
                 ELSE IF 10 * cmc < 25 * Len(cards) THEN 1
                 ELSE IF 10 * cmc > 40 * Len(cards) THEN -1 ELSE 0
        raw == 1 + price + staple + curve
    IN IF raw < 1 THEN 1 ELSE IF raw > 5 THEN 5 ELSE raw

\* C6: the score is the clamped sum of the base 1, the price step, the
\* staple step and the mana-curve step, computed from counts of entries; it
\* is the same with or without the commander and for the list reversed, and
\* it is 1 for an empty list.
C6_ScoreIsFormula ==
    Returned("score") =>
        /\ call.result[1] = ScoreFormula(call.cards)
        /\ call.result[1] = calculate_deck_power_level(Reverse(call.cards), <<>>)
        /\ call.cards = <<>> => call.result[1] = 1

\* C6 witness: a list with quantities of 3 and a commander, whose raw sum of
\* 6 is clamped to 5.
C6_Witness ==
    /\ Returned("score")
    /\ call.result[1] = 5
    /\ call.commander # <<>>
    /\ PricedAbove(call.cards, 5000) >= 5
    /\ NamedIn(call.cards, fast_mana_cards) >= 8
    /\ 10 * CmcUpTo(call.cards, Len(call.cards)) < 25 * Len(call.cards)

\* ------------------------------------------------------------------------
\* Properties of validate_commander_deck (specification SpecValidate).

ErrorsOfKind(report, kind) == SelectSeq(report.errors, LAMBDA e : e.kind = kind)

Occurrences(errors, err) == Len(SelectSeq(errors, LAMBDA e : e = err))

NamesIn(cards) == {cards[i].name : i \in DOMAIN cards}

\* The quantities of the entries of cards named name, added up.
NameQuantity(cards, name) ==
    LET named == SelectSeq(cards, LAMBDA e : e.name = name)
    IN QuantityUpTo(named, Len(named))

\* The entries of cards named name whose colors the commander does not cover.
OffColor(cards, commander, name) ==
    SelectSeq(cards, LAMBDA e :
        e.name = name /\ ~(e.color_identity \subseteq commander[1].color_identity))

\* C7: the report's total is the sum of the entry quantities plus 1 for a
\* commander; the 100-card error is there, naming that total, exactly when
\* the total is not 100, also when another rule fails too; warnings is
\* empty; valid says that errors is empty.
C7_ValidateReport ==
    Returned("validate") =>
        LET report == call.result[1]
            total == QuantityUpTo(call.cards, Len(call.cards))
                     + (IF Len(call.commander) = 1 THEN 1 ELSE 0)
        IN /\ report.total_cards = total
           /\ ErrorsOfKind(report, "count")
                = (IF total # 100 THEN <<ErrCount(total)>> ELSE <<>>)
           /\ report.warnings = <<>>
           /\ report.valid <=> report.errors = <<>>
           /\ Len(report.errors)
                = Len(ErrorsOfKind(report, "count"))
                  + Len(ErrorsOfKind(report, "duplicate"))
                  + Len(ErrorsOfKind(report, "color"))

\* C7 witness: a deck of exactly 100 cards with a commander that validates.
C7_Witness ==
    /\ Returned("validate")
    /\ call.result[1].valid
    /\ call.result[1].total_cards = 100
    /\ call.commander # <<>>
    /\ Len(call.cards) >= 2

\* C8: a duplicate-card error names N exactly when N is no basic land and
\* the quantities of the entries named N add up to more than 1.
C8_DuplicateError ==
    Returned("validate") =>
        \A name \in NamesIn(call.cards) \cup basic_lands :
            Occurrences(call.result[1].errors, ErrDuplicate(name)) > 0
              <=> (name \notin basic_lands /\ NameQuantity(call.cards, name) > 1)

\* C8 witness: two entries of quantity 1 with different card ids and the
\* same name draw the error, next to a stack of 98 Plains that draws none.
C8_Witness ==
    /\ Returned("validate")
    /\ \E i, j \in DOMAIN call.cards :
          /\ call.cards[i].name = call.cards[j].name
          /\ call.cards[i].card_id # call.cards[j].card_id
          /\ call.cards[i].quantity = 1 /\ call.cards[j].quantity = 1
          /\ Occurrences(call.result[1].errors, ErrDuplicate(call.cards[i].name)) > 0
    /\ \E k \in DOMAIN call.cards :
          call.cards[k].name = "Plains" /\ call.cards[k].quantity = 98
    /\ Occurrences(call.result[1].errors, ErrDuplicate("Plains")) = 0

\* C9: with a commander, the color-identity errors naming N are as many as
\* the entries named N whose color identity is no subset of the commander's;
\* without a commander there is no color-identity error.
C9_ColorError ==
    Returned("validate") =>
        IF call.commander # <<>>
        THEN /\ \A name \in NamesIn(call.cards) :
                   Occurrences(call.result[1].errors, ErrColor(name))
                     = Len(OffColor(call.cards, call.commander, name))
             /\ \A i \in DOMAIN call.result[1].errors :
                   call.result[1].errors[i].kind = "color" =>
                      call.result[1].errors[i].name \in NamesIn(call.cards)
        ELSE ErrorsOfKind(call.result[1], "color") = <<>>

\* C9 witness: under a white commander, two blue entries draw one error
\* each while a colorless and a white entry draw none.
C9_Witness ==
    /\ Returned("validate")
    /\ call.commander # <<>> /\ call.commander[1].color_identity = {"W"}
    /\ Len(call.cards) = 3
    /\ Len(ErrorsOfKind(call.result[1], "color")) = 2
    /\ \E i \in DOMAIN call.cards :
          call.cards[i].color_identity \in {{}, {"W"}}

\* ------------------------------------------------------------------------
\* Properties of the failure paths and of persistence (specification Spec).

\* The card the gateway resolves key to, if it resolves it.
Resolved(key) == fetch_scryfall_data(key).data

\* C11: a create whose commander_id resolves to a card that is no legendary
\* creature is answered with 400 and inserts no deck.
C11_InvalidCommanderIs400 ==
    [][(resp'.op = "create" /\ resp'.card_id # ""
          /\ Resolved(resp'.card_id) # <<>>
          /\ NotLegendaryCreature(Resolved(resp'.card_id)[1])) =>
            resp'.status = 400 /\ db' = db
      ]_vars

\* The part of it that is about the store: such a create inserts no deck.
InvalidCommanderInsertsNothing ==
    [][(resp'.op = "create" /\ resp'.card_id # ""
          /\ Resolved(resp'.card_id) # <<>>
          /\ NotLegendaryCreature(Resolved(resp'.card_id)[1])) =>
            resp'.status # 200 /\ db' = db
      ]_vars

\* A deck document whose derived fields are those of its entries and
\* commander.
Recomputed(deck) ==
    /\ deck.total_cards
         = QuantityUpTo(deck.cards, Len(deck.cards)) + CommanderCount(deck)
    /\ deck.power_level = calculate_deck_power_level(deck.cards, deck.commander)
    /\ deck.total_price_usd
         = SumPriceUsd(deck.cards)
           + (IF deck.commander # <<>> THEN deck.commander[1].price_usd ELSE 0)
    /\ deck.total_price_aud
         = SumPriceAud(deck.cards)
           + (IF deck.commander # <<>> THEN deck.commander[1].price_aud ELSE 0)

\* C12: an add-card or remove-card that fails leaves the collection as it
\* was; one that succeeds has replaced the document by the deck it returns,
\* with every derived field recomputed.
C12_FailureWritesNothing ==
    [][resp'.op \in {"add", "remove"} =>
         IF resp'.status # 200
         THEN db' = db
         ELSE /\ resp'.deck_id \in DOMAIN db'
              /\ db'[resp'.deck_id] = resp'.deck[1]
              /\ Recomputed(db'[resp'.deck_id])
      ]_vars

\* C12 witness: an add-card has failed at the card lookup on a deck that
\* holds entries, and the deck is still recomputed as it was written.
C12_Witness ==
    /\ resp.op = "add" /\ resp.status = 500 /\ resp.card_id = "unknown"
    /\ resp.deck_id \in DOMAIN db
    /\ Len(db[resp.deck_id].cards) >= 1
    /\ Recomputed(db[resp.deck_id])

\* The source price of card_data is null, absent or no number.
NoUsablePrice(card_data) == card_data.usd \in {<<>>, <<-1>>}

\* The entries of deck for card_id are priced 0 in both currencies.
PricedZero(cards, card_id) ==
    /\ EntriesOf(cards, card_id) # <<>>
    /\ \A i \in DOMAIN cards :
          cards[i].card_id = card_id =>
             cards[i].price_usd = 0 /\ cards[i].price_aud = 0

\* C13: an add-card (a create with a commander) for a card whose source
\* price is absent, null or no number succeeds and stores the price 0 in both
\* currencies.
C13_BadPriceIsZero ==
    [][/\ (resp'.op = "add" /\ resp'.deck_id \in DOMAIN db
             /\ Resolved(resp'.card_id) # <<>>
             /\ NoUsablePrice(Resolved(resp'.card_id)[1])) =>
               /\ resp'.status = 200
               /\ PricedZero(db'[resp'.deck_id].cards, Resolved(resp'.card_id)[1].id)
       /\ (resp'.op = "create" /\ resp'.card_id # ""
             /\ Resolved(resp'.card_id) # <<>>
             /\ ~NotLegendaryCreature(Resolved(resp'.card_id)[1])
             /\ NoUsablePrice(Resolved(resp'.card_id)[1])) =>
               /\ resp'.status = 200
               /\ resp'.deck[1].commander[1].price_usd = 0
               /\ resp'.deck[1].commander[1].price_aud = 0
      ]_vars

\* The part of it that holds: a null or absent price is stored as 0.
NullPriceIsZero ==
    [][(resp'.op = "add" /\ resp'.deck_id \in DOMAIN db
          /\ Resolved(resp'.card_id) # <<>>
          /\ Resolved(resp'.card_id)[1].usd = <<>>) =>
            /\ resp'.status = 200
            /\ PricedZero(db'[resp'.deck_id].cards, Resolved(resp'.card_id)[1].id)
      ]_vars

\* C14: after an add-card or remove-card that succeeded with a deck that
\* does not validate, the persisted document is the deck of the response, and
\* the response carries the report with its errors.
C14_InvalidDeckPersisted ==
    ((Succeeded("add") \/ Succeeded("remove")) /\ ~resp.validation[1].valid) =>
        /\ resp.deck_id \in DOMAIN db
        /\ db[resp.deck_id] = resp.deck[1]
        /\ resp.validation[1].errors # <<>>
        /\ resp.validation[1]
             = validate_commander_deck(db[resp.deck_id].cards,
                                       db[resp.deck_id].commander)

\* C14 witness: a remove-card has succeeded on a deck that keeps a blue card
\* under a white commander; the report names it and the deck is persisted.
C14_Witness ==
    /\ Succeeded("remove")
    /\ ~resp.validation[1].valid
    /\ Len(ErrorsOfKind(resp.validation[1], "color")) >= 1
    /\ resp.deck_id \in DOMAIN db
    /\ db[resp.deck_id].cards = resp.deck[1].cards
    /\ Len(db[resp.deck_id].cards) >= 1

\* ------------------------------------------------------------------------
\* Games.

\* The player identifiers of a request.
PlayerIds == {"player1", "ai_player1", "ai_player2", "ai_player3"}

\* Longest list of player identifiers posted.
MaxPlayers == 5

\* Most game documents persisted.
MaxGames == 2

\* A fixed order of the identifiers. create_game treats every identifier
\* alike, so the lists posted are taken in this order, repeats allowed.
PlayerRank(pid) ==
    CASE pid = "player1" -> 1
      [] pid = "ai_player1" -> 2
      [] pid = "ai_player2" -> 3
      [] OTHER -> 4

PlayerLists ==
    {l \in SeqsUpTo(PlayerIds, MaxPlayers) :
        \A i \in 1..(Len(l) - 1) : PlayerRank(l[i]) <= PlayerRank(l[i + 1])}

\* The keys of a dict comprehension over player_decks.
Keys(player_decks) == {player_decks[i] : i \in DOMAIN player_decks}

\* GameState(players=player_decks, life_totals=..., ...) with its defaults;
\* created_at, a clock reading, is left out.
GameState(id, player_decks) ==
    [id |-> id,
     players |-> player_decks,
     current_turn |-> 0,
     phase |-> "upkeep",
     life_totals |-> [pid \in Keys(player_decks) |-> 40],
     commander_damage |-> [pid \in Keys(player_decks) |->
                             [other \in Keys(player_decks) \ {pid} |-> 0]],
     board_state |-> [pid \in Keys(player_decks) |-> <<>>],
     hands |-> [pid \in Keys(player_decks) |-> <<>>],
     graveyards |-> [pid \in Keys(player_decks) |-> <<>>],
     stack |-> <<>>,
     turn_count |-> 1,
     game_over |-> FALSE,
     winner |-> <<>>]

\* The body of create_game's try block: what it raises, or the game it built.
CreateGameBody(id, player_decks) ==
    IF Len(player_decks) # 4
    THEN [raised |-> 400, game |-> <<>>]
    ELSE [raised |-> 0, game |-> <<GameState(id, player_decks)>>]

\* POST /games
CreateGame(player_decks) ==
    LET id == Cardinality(DOMAIN games) + 1
        out == CreateGameBody(id, player_decks)
    IN /\ Len(player_decks) = 4 => Cardinality(DOMAIN games) < MaxGames
       /\ game_resp' = [player_decks |-> player_decks,
                        status |-> ResponseStatus(out.raised),
                        game |-> out.game]
       /\ games' = IF out.raised = 0 THEN insert_one(games, out.game[1])
                   ELSE games
       /\ UNCHANGED <<db, issued, resp, inserted, call, inflight>>

NextGames == \E player_decks \in PlayerLists : CreateGame(player_decks)

SpecGames == Init /\ [][NextGames]_vars

\* Every player of game has life 40 and an empty board, hand and graveyard.
FreshGame(game) ==
    \A i \in DOMAIN game.players :
        LET pid == game.players[i]
        IN /\ pid \in DOMAIN game.life_totals /\ game.life_totals[pid] = 40
           /\ pid \in DOMAIN game.board_state /\ game.board_state[pid] = <<>>
           /\ pid \in DOMAIN game.hands /\ game.hands[pid] = <<>>
           /\ pid \in DOMAIN game.graveyards /\ game.graveyards[pid] = <<>>

\* C15: POST /games with exactly 4 player identifiers succeeds and persists
\* a game in which every listed player has life 40 and an empty board, hand
\* and graveyard; a list of any other length is answered with 400 and
\* persists no game.
C15_FourPlayersOr400 ==
    [][game_resp'.status # 0 /\ <<games, game_resp>>' # <<games, game_resp>> =>
         IF Len(game_resp'.player_decks) = 4
         THEN /\ game_resp'.status = 200
              /\ \E id \in DOMAIN games' \ DOMAIN games :
                    /\ games'[id] = game_resp'.game[1]
                    /\ games'[id].players = game_resp'.player_decks
                    /\ FreshGame(games'[id])
         ELSE /\ game_resp'.status = 400
              /\ games' = games
      ]_vars

\* The part of it that holds: four players get a fresh game persisted, and
\* any other list is refused with nothing persisted.
FourPlayersOrRefused ==
    [][game_resp'.status # 0 /\ <<games, game_resp>>' # <<games, game_resp>> =>
         IF Len(game_resp'.player_decks) = 4
         THEN /\ game_resp'.status = 200
              /\ \E id \in DOMAIN games' \ DOMAIN games :
                    /\ games'[id] = game_resp'.game[1]
                    /\ games'[id].players = game_resp'.player_decks
                    /\ FreshGame(games'[id])
         ELSE /\ game_resp'.status # 200
              /\ games' = games
      ]_vars

\* ------------------------------------------------------------------------
\* Requests served at the same time. add_card_to_deck and
\* remove_card_from_deck read the document (find_one), work on their copy of
\* it, and write the whole copy back (update_one); the server serves other
\* requests between the two database operations. create_deck and delete_deck
\* perform one database operation each. get_deck writes nothing and is left
\* to Spec.

\* The cards and commanders requested while requests overlap.
ConcCardKeys == {"c1", "c2"}
ConcCommanders == {"", "k1"}

\* Overlapping requests add or remove one copy at a time.
ConcQuantities == {1}

\* A variant of DeckRead that reads the document again at the write.
DeckReadAtWrite(c) ==
    IF inflight[c].deck_id \in DOMAIN db
    THEN find_one(db, inflight[c].deck_id)
    ELSE inflight[c].deck_data

\* deck = Deck(**deck_data): the handler's copy of the document it read.
DeckRead(c) == inflight[c].deck_data

\* add_card_to_deck up to its find_one: 404 (seen as 500) when no document
\* matches, else the handler goes on with the document it read.
AddCardRead(c, deck_id, card_id, quantity) ==
    LET deck_data == find_one(db, deck_id)
    IN /\ inflight[c] = Idle
       /\ deck_data # <<>> =>
              SumQuantity(deck_data[1].cards) + quantity <= MaxTotal
       /\ IF deck_data = <<>>
          THEN /\ resp' = Response("add", deck_id, card_id, quantity, Raise(404))
               /\ UNCHANGED inflight
          ELSE /\ inflight' = [inflight EXCEPT ![c] =
                                 [op |-> "add", deck_id |-> deck_id,
                                  card_id |-> card_id, quantity |-> quantity,
                                  deck_data |-> deck_data]]
               /\ UNCHANGED resp
       /\ UNCHANGED <<db, issued, inserted, call, games, game_resp>>

\* add_card_to_deck from the card lookup to its response.
AddCardWrite(c) ==
    LET req == inflight[c]
        out == AddCardBody(DeckRead(c)[1], req.card_id, req.quantity)
    IN /\ req.op = "add"
       /\ resp' = Response("add", req.deck_id, req.card_id, req.quantity, out)
       /\ IF out.raised = 0
          THEN /\ db' = update_one(db, req.deck_id, out.deck[1])
               /\ inserted' = [inserted EXCEPT ![req.deck_id] =
                                 IF @ >= 0 THEN @ + req.quantity ELSE @]
          ELSE UNCHANGED <<db, inserted>>
       /\ inflight' = [inflight EXCEPT ![c] = Idle]
       /\ UNCHANGED <<issued, call, games, game_resp>>

\* remove_card_from_deck up to its find_one.
RemoveCardRead(c, deck_id, card_id, quantity) ==
    LET deck_data == find_one(db, deck_id)
    IN /\ inflight[c] = Idle
       /\ IF deck_data = <<>>
          THEN /\ resp' = Response("remove", deck_id, card_id, quantity, Raise(404))
               /\ UNCHANGED inflight
          ELSE /\ inflight' = [inflight EXCEPT ![c] =
                                 [op |-> "remove", deck_id |-> deck_id,
                                  card_id |-> card_id, quantity |-> quantity,
                                  deck_data |-> deck_data]]
               /\ UNCHANGED resp
       /\ UNCHANGED <<db, issued, inserted, call, games, game_resp>>

\* remove_card_from_deck from its search of the entries to its response.
RemoveCardWrite(c) ==
    LET req == inflight[c]
        out == RemoveCardBody(DeckRead(c)[1], req.card_id, req.quantity)
    IN /\ req.op = "remove"
       /\ resp' = Response("remove", req.deck_id, req.card_id, req.quantity, out)
       /\ IF out.raised = 0
          THEN /\ db' = update_one(db, req.deck_id, out.deck[1])
               /\ inserted' = [inserted EXCEPT ![req.deck_id] = -1]
          ELSE UNCHANGED <<db, inserted>>
       /\ inflight' = [inflight EXCEPT ![c] = Idle]
       /\ UNCHANGED <<issued, call, games, game_resp>>

NextConc ==
    \/ \E commander_id \in ConcCommanders : CreateDeck(commander_id)
    \/ \E c \in Clients, deck_id \in DeckIds, card_id \in ConcCardKeys,
          quantity \in ConcQuantities : AddCardRead(c, deck_id, card_id, quantity)
    \/ \E c \in Clients : AddCardWrite(c)
    \/ \E c \in Clients, deck_id \in DeckIds, card_id \in ConcCardKeys,
          quantity \in ConcQuantities : RemoveCardRead(c, deck_id, card_id, quantity)
    \/ \E c \in Clients : RemoveCardWrite(c)
    \/ \E deck_id \in DeckIds : DeleteDeck(deck_id)

SpecConc == Init /\ [][NextConc]_vars

\* The deck a request under way computes from the document it read.
OwnResult(req) ==
    IF req.op = "add"
    THEN AddCardBody(req.deck_data[1], req.card_id, req.quantity)
    ELSE RemoveCardBody(req.deck_data[1], req.card_id, req.quantity)

\* C16: when overlapping add-card and remove-card requests on one deck both
\* succeed, the later write replaces the whole document by the deck its
\* writer computed from the document that writer read, whatever was written
\* since; so an acknowledged add-card can be missing from the persisted
\* entries and total_cards.
C16_LastWriterWins ==
    [][\A c \in Clients :
         (inflight[c].op # "none" /\ inflight'[c].op = "none"
            /\ resp'.status = 200 /\ inflight[c].deck_id \in DOMAIN db) =>
              /\ resp'.deck[1] = OwnResult(inflight[c]).deck[1]
              /\ db'[inflight[c].deck_id] = resp'.deck[1]
              /\ Recomputed(db'[inflight[c].deck_id])
      ]_vars

\* C16 witness: only add-card requests have succeeded on the deck since it
\* was created, the last of them just now, and the persisted entries and
\* total_cards hold fewer cards than those requests were acknowledged for.
C16_Witness ==
    /\ Succeeded("add")
    /\ resp.deck_id \in DOMAIN db
    /\ inserted[resp.deck_id] >= 2
    /\ db[resp.deck_id] = resp.deck[1]
    /\ QuantityUpTo(db[resp.deck_id].cards, Len(db[resp.deck_id].cards))
         < inserted[resp.deck_id]
    /\ db[resp.deck_id].total_cards
         < inserted[resp.deck_id] + CommanderCount(db[resp.deck_id])

\* C17: a deck that was created and is no longer persisted is not persisted
\* in any later state: the write of a request that read it before the delete
\* matches no document and inserts none.
C17_DeletedStaysDeleted ==
    [][\A d \in issued : d \notin DOMAIN db => d \notin DOMAIN db']_vars

\* C17 witness: an add-card or remove-card request has just answered 200
\* with a deck body for a deck that was deleted after the request read it.
C17_Witness ==
    /\ resp.op \in {"add", "remove"}
    /\ resp.status = 200
    /\ resp.deck # <<>>
    /\ resp.deck_id \in issued
    /\ resp.deck_id \notin DOMAIN db
    /\ \A c \in Clients : inflight[c] = Idle

====
